---- MODULE Spec2Model ----
(***************************************************************************)
(* Model of operations/schedule.go: the JSON encoders of the two           *)
(* create-schedule requests, CreateChargeSchedule.MarshalJSON and          *)
(* CreateTransferSchedule.MarshalJSON.                                     *)
(*                                                                         *)
(* Representation.                                                         *)
(*  - A Go string that is parsed (StartDate, EndDate) is a sequence of     *)
(*    one-character strings, so that parsing and formatting are computed.  *)
(*  - A Go slice is a record [isNil, elems]: a nil slice and an empty      *)
(*    non-nil slice are different values, as they are for "!= nil".        *)
(*  - A float64 is its class and shortest decimal text.                    *)
(*  - The bytes encoding/json produces are the ordered sequence of the     *)
(*    object's members, each [key, val]; a nested object is again such a   *)
(*    sequence. Member order is the order of the bytes.                    *)
(*  - A ([]byte, error) result is [called, bytesNil, doc, err]; called is  *)
(*    FALSE until MarshalJSON has returned.                                *)
(***************************************************************************)
EXTENDS Integers, Sequences, FiniteSets, TLC

VARIABLES req, res

vars == <<req, res>>

(***************************************************************************)
(* Bounds of the model.                                                    *)
(***************************************************************************)
\* longest Weekdays / DaysOfMonth list a request carries
MaxLen == 2

(***************************************************************************)
(* Characters and numbers.                                                 *)
(***************************************************************************)
DigitChars == <<"0", "1", "2", "3", "4", "5", "6", "7", "8", "9">>

isDigit(s, i) == i <= Len(s) /\ \E k \in 1..10 : DigitChars[k] = s[i]

DigitVal(c) == (CHOOSE k \in 1..10 : DigitChars[k] = c) - 1

DigitChar(n) == DigitChars[n + 1]

\* a slice, nil or not
NilSlice == [isNil |-> TRUE, elems |-> <<>>]

Slice(s) == [isNil |-> FALSE, elems |-> s]

(***************************************************************************)
(* time.Parse("2006-01-02", value) and Time.Format("2006-01-02").          *)
(***************************************************************************)
NoError == [isNil |-> TRUE, type |-> "", Value |-> <<>>, LayoutElem |-> "", Message |-> ""]

ParseError(value, elem, msg) ==
    [isNil |-> FALSE, type |-> "time.ParseError", Value |-> value,
     LayoutElem |-> elem, Message |-> msg]

UnsupportedValueError(str) ==
    [isNil |-> FALSE, type |-> "json.UnsupportedValueError", Value |-> <<>>,
     LayoutElem |-> "", Message |-> str]

isLeap(year) == year % 4 = 0 /\ (year % 100 # 0 \/ year % 400 = 0)

daysIn(month, year) ==
    IF month = 2 THEN (IF isLeap(year) THEN 29 ELSE 28)
    ELSE IF month \in {4, 6, 9, 11} THEN 30 ELSE 31

\* the zero time.Time: January 1, year 1
ZeroTime == [year |-> 1, month |-> 1, day |-> 1]

\* time.Parse with the layout "2006-01-02": [t, err]
ParseDate(value) ==
    IF Len(value) < 4 \/ ~ isDigit(value, 1)
       \/ \E i \in 2..4 : ~ isDigit(value, i)
    THEN [t |-> ZeroTime, err |-> ParseError(value, "2006", "")]
    ELSE IF Len(value) < 5 \/ value[5] # "-"
    THEN [t |-> ZeroTime, err |-> ParseError(value, "-", "")]
    ELSE IF ~ isDigit(value, 6) \/ ~ isDigit(value, 7)
    THEN [t |-> ZeroTime, err |-> ParseError(value, "01", "")]
    ELSE LET year == DigitVal(value[1]) * 1000 + DigitVal(value[2]) * 100
                     + DigitVal(value[3]) * 10 + DigitVal(value[4])
             month == DigitVal(value[6]) * 10 + DigitVal(value[7])
         IN IF month <= 0 \/ 12 < month
            THEN [t |-> ZeroTime, err |-> ParseError(value, "01", ": month out of range")]
            ELSE IF Len(value) < 8 \/ value[8] # "-"
            THEN [t |-> ZeroTime, err |-> ParseError(value, "-", "")]
            ELSE IF ~ isDigit(value, 9) \/ ~ isDigit(value, 10)
            THEN [t |-> ZeroTime, err |-> ParseError(value, "02", "")]
            ELSE LET day == DigitVal(value[9]) * 10 + DigitVal(value[10])
                 IN IF Len(value) > 10
                    THEN [t |-> ZeroTime, err |-> ParseError(value, "", ": extra text")]
                    ELSE IF day < 1 \/ day > daysIn(month, year)
                    THEN [t |-> ZeroTime, err |-> ParseError(value, "", ": day out of range")]
                    ELSE [t |-> [year |-> year, month |-> month, day |-> day],
                          err |-> NoError]

\* omise.Date's JSON form: the date formatted "2006-01-02", zero padded
FormatDate(t) ==
    << DigitChar(t.year \div 1000), DigitChar((t.year \div 100) % 10),
       DigitChar((t.year \div 10) % 10), DigitChar(t.year % 10), "-",
       DigitChar(t.month \div 10), DigitChar(t.month % 10), "-",
       DigitChar(t.day \div 10), DigitChar(t.day % 10) >>


(***************************************************************************)
(* encoding/json on the local struct types.                                *)
(***************************************************************************)
Member(k, v) == [key |-> k, val |-> v]

\* a float64: zero, a finite non-zero number, NaN or an infinity
Float(c, t) == [class |-> c, text |-> t]

\* encoding/json refuses NaN and the infinities
floatUnsupported(f) == f.class \in {"nan", "inf"}

\* type charge struct: customer and amount carry no omitempty
chargeJSON(c) ==
    << Member("customer", c.Customer), Member("amount", c.Amount) >>
    \o (IF c.Currency # "" THEN << Member("currency", c.Currency) >> ELSE <<>>)
    \o (IF c.Card # "" THEN << Member("card", c.Card) >> ELSE <<>>)
    \o (IF c.Description # "" THEN << Member("description", c.Description) >> ELSE <<>>)

\* variant: the transfer struct with omitempty missing on amount
transferJSON_AmountAlways(t) ==
    << Member("recipient", t.Recipient), Member("amount", t.Amount) >>
    \o (IF t.PercentageOfBalance.class # "zero"
        THEN << Member("percentage_of_balance", t.PercentageOfBalance.text) >>
        ELSE <<>>)

\* type transfer struct: recipient carries no omitempty
transferJSON(t) ==
    << Member("recipient", t.Recipient) >>
    \o (IF t.Amount # 0 THEN << Member("amount", t.Amount) >> ELSE <<>>)
    \o (IF t.PercentageOfBalance.class # "zero"
        THEN << Member("percentage_of_balance", t.PercentageOfBalance.text) >>
        ELSE <<>>)

\* variant: the on struct with omitempty missing on weekdays
chargeOnJSON_WeekdaysAlways(o) ==
    << Member("weekdays", o.Weekdays.elems) >>
    \o (IF Len(o.DaysOfMonth.elems) > 0
        THEN << Member("days_of_month", o.DaysOfMonth.elems) >> ELSE <<>>)
    \o (IF o.WeekdayOfMonth # ""
        THEN << Member("weekday_of_month", o.WeekdayOfMonth) >> ELSE <<>>)

\* type on struct of CreateChargeSchedule.MarshalJSON: every field omitempty
chargeOnJSON(o) ==
    (IF Len(o.Weekdays.elems) > 0 THEN << Member("weekdays", o.Weekdays.elems) >> ELSE <<>>)
    \o (IF Len(o.DaysOfMonth.elems) > 0
        THEN << Member("days_of_month", o.DaysOfMonth.elems) >> ELSE <<>>)
    \o (IF o.WeekdayOfMonth # ""
        THEN << Member("weekday_of_month", o.WeekdayOfMonth) >> ELSE <<>>)

\* type on struct of CreateTransferSchedule.MarshalJSON: every field omitempty
transferOnJSON(o) ==
    (IF Len(o.Weekdays.elems) > 0 THEN << Member("weekdays", o.Weekdays.elems) >> ELSE <<>>)
    \o (IF Len(o.DaysOfMonth.elems) > 0
        THEN << Member("days_of_month", o.DaysOfMonth.elems) >> ELSE <<>>)
    \o (IF o.WeekdayOfMonth # ""
        THEN << Member("weekday_of_month", o.WeekdayOfMonth) >> ELSE <<>>)

\* the zero value of either on struct
ZeroOn == [Weekdays |-> NilSlice, DaysOfMonth |-> NilSlice, WeekdayOfMonth |-> ""]

NilPtr(zero) == [isNil |-> TRUE, v |-> zero]

Ptr(x) == [isNil |-> FALSE, v |-> x]

\* type param struct of CreateChargeSchedule.MarshalJSON, in field order
chargeParamJSON(p) ==
    << Member("every", p.Every), Member("period", p.Period) >>
    \o (IF ~ p.StartDate.isNil
        THEN << Member("start_date", FormatDate(p.StartDate.v)) >> ELSE <<>>)
    \o << Member("end_date", FormatDate(p.EndDate)) >>
    \o (IF ~ p.On.isNil THEN << Member("on", chargeOnJSON(p.On.v)) >> ELSE <<>>)
    \o << Member("charge", chargeJSON(p.Charge)) >>

\* variant: the param struct with On declared after Transfer
transferParamJSON_OnLast(p) ==
    << Member("every", p.Every), Member("period", p.Period) >>
    \o (IF ~ p.StartDate.isNil
        THEN << Member("start_date", FormatDate(p.StartDate.v)) >> ELSE <<>>)
    \o << Member("end_date", FormatDate(p.EndDate)) >>
    \o << Member("transfer", transferJSON(p.Transfer)) >>
    \o (IF ~ p.On.isNil THEN << Member("on", transferOnJSON(p.On.v)) >> ELSE <<>>)

\* type param struct of CreateTransferSchedule.MarshalJSON, in field order
transferParamJSON(p) ==
    << Member("every", p.Every), Member("period", p.Period) >>
    \o (IF ~ p.StartDate.isNil
        THEN << Member("start_date", FormatDate(p.StartDate.v)) >> ELSE <<>>)
    \o << Member("end_date", FormatDate(p.EndDate)) >>
    \o (IF ~ p.On.isNil THEN << Member("on", transferOnJSON(p.On.v)) >> ELSE <<>>)
    \o << Member("transfer", transferJSON(p.Transfer)) >>

\* a ([]byte, error) pair
Returned(bytesNil, doc, err) ==
    [called |-> TRUE, bytesNil |-> bytesNil, doc |-> doc, err |-> err]

NotCalled == [called |-> FALSE, bytesNil |-> TRUE, doc |-> <<>>, err |-> NoError]

(***************************************************************************)
(* CreateChargeSchedule.MarshalJSON                                        *)
(***************************************************************************)
\* variant: the switch with the two month cases exchanged
chargeSwitch_WeekdayOfMonthFirst(r) ==
    IF r.Period = "week"
    THEN Ptr([ZeroOn EXCEPT !.Weekdays = r.Weekdays])
    ELSE IF r.Period = "month" /\ r.WeekdayOfMonth # ""
    THEN Ptr([ZeroOn EXCEPT !.WeekdayOfMonth = r.WeekdayOfMonth])
    ELSE IF r.Period = "month" /\ ~ r.DaysOfMonth.isNil
    THEN Ptr([ZeroOn EXCEPT !.DaysOfMonth = r.DaysOfMonth])
    ELSE NilPtr(ZeroOn)

\* the switch that sets p.On
chargeSwitch(r) ==
    IF r.Period = "week"
    THEN Ptr([ZeroOn EXCEPT !.Weekdays = r.Weekdays])
    ELSE IF r.Period = "month" /\ ~ r.DaysOfMonth.isNil
    THEN Ptr([ZeroOn EXCEPT !.DaysOfMonth = r.DaysOfMonth])
    ELSE IF r.Period = "month" /\ r.WeekdayOfMonth # ""
    THEN Ptr([ZeroOn EXCEPT !.WeekdayOfMonth = r.WeekdayOfMonth])
    ELSE NilPtr(ZeroOn)

\* variant: the end-date block dropping the error of time.Parse
chargeDates_EndUnchecked(r) ==
    LET start == ParseDate(r.StartDate)
        end == ParseDate(r.EndDate)
    IN IF r.StartDate # <<>> /\ ~ start.err.isNil
       THEN [err |-> start.err, StartDate |-> NilPtr(ZeroTime), EndDate |-> ZeroTime]
       ELSE [err |-> NoError,
             StartDate |-> IF r.StartDate # <<>> THEN Ptr(start.t) ELSE NilPtr(ZeroTime),
             EndDate |-> IF r.EndDate # <<>> THEN end.t ELSE ZeroTime]

\* variant: the start-date block parsing the date and not storing it in p
chargeDates_StartNotStored(r) ==
    LET start == ParseDate(r.StartDate)
        end == ParseDate(r.EndDate)
    IN IF r.StartDate # <<>> /\ ~ start.err.isNil
       THEN [err |-> start.err, StartDate |-> NilPtr(ZeroTime), EndDate |-> ZeroTime]
       ELSE IF r.EndDate # <<>> /\ ~ end.err.isNil
       THEN [err |-> end.err, StartDate |-> NilPtr(ZeroTime), EndDate |-> ZeroTime]
       ELSE [err |-> NoError,
             StartDate |-> NilPtr(ZeroTime),
             EndDate |-> IF r.EndDate # <<>> THEN end.t ELSE ZeroTime]

\* the two date blocks: [err, StartDate, EndDate]
chargeDates(r) ==
    LET start == ParseDate(r.StartDate)
        end == ParseDate(r.EndDate)
    IN IF r.StartDate # <<>> /\ ~ start.err.isNil
       THEN [err |-> start.err, StartDate |-> NilPtr(ZeroTime), EndDate |-> ZeroTime]
       ELSE IF r.EndDate # <<>> /\ ~ end.err.isNil
       THEN [err |-> end.err, StartDate |-> NilPtr(ZeroTime), EndDate |-> ZeroTime]
       ELSE [err |-> NoError,
             StartDate |-> IF r.StartDate # <<>> THEN Ptr(start.t) ELSE NilPtr(ZeroTime),
             EndDate |-> IF r.EndDate # <<>> THEN end.t ELSE ZeroTime]

CreateChargeSchedule_MarshalJSON(r) ==
    LET d == chargeDates(r)
        p == [Every |-> r.Every, Period |-> r.Period,
              StartDate |-> d.StartDate, EndDate |-> d.EndDate,
              On |-> chargeSwitch(r),
              Charge |-> [Customer |-> r.Customer, Amount |-> r.Amount,
                          Currency |-> r.Currency, Card |-> r.Card,
                          Description |-> r.Description]]
    IN IF ~ d.err.isNil
       THEN Returned(TRUE, <<>>, d.err)
       ELSE Returned(FALSE, chargeParamJSON(p), NoError)

(***************************************************************************)
(* CreateTransferSchedule.MarshalJSON                                      *)
(***************************************************************************)
\* variant: the switch with the period test missing from the days-of-month case
transferSwitch_NoPeriodCheck(r) ==
    IF r.Period = "week"
    THEN Ptr([ZeroOn EXCEPT !.Weekdays = r.Weekdays])
    ELSE IF ~ r.DaysOfMonth.isNil
    THEN Ptr([ZeroOn EXCEPT !.DaysOfMonth = r.DaysOfMonth])
    ELSE IF r.Period = "month" /\ r.WeekdayOfMonth # ""
    THEN Ptr([ZeroOn EXCEPT !.WeekdayOfMonth = r.WeekdayOfMonth])
    ELSE NilPtr(ZeroOn)

\* variant: the switch testing len(req.DaysOfMonth) > 0 where the code tests != nil
transferSwitch_LenCheck(r) ==
    IF r.Period = "week"
    THEN Ptr([ZeroOn EXCEPT !.Weekdays = r.Weekdays])
    ELSE IF r.Period = "month" /\ Len(r.DaysOfMonth.elems) > 0
    THEN Ptr([ZeroOn EXCEPT !.DaysOfMonth = r.DaysOfMonth])
    ELSE IF r.Period = "month" /\ r.WeekdayOfMonth # ""
    THEN Ptr([ZeroOn EXCEPT !.WeekdayOfMonth = r.WeekdayOfMonth])
    ELSE NilPtr(ZeroOn)

\* the switch that sets p.On
transferSwitch(r) ==
    IF r.Period = "week"
    THEN Ptr([ZeroOn EXCEPT !.Weekdays = r.Weekdays])
    ELSE IF r.Period = "month" /\ ~ r.DaysOfMonth.isNil
    THEN Ptr([ZeroOn EXCEPT !.DaysOfMonth = r.DaysOfMonth])
    ELSE IF r.Period = "month" /\ r.WeekdayOfMonth # ""
    THEN Ptr([ZeroOn EXCEPT !.WeekdayOfMonth = r.WeekdayOfMonth])
    ELSE NilPtr(ZeroOn)

\* variant: the end-date block parsing req.StartDate where the code parses req.EndDate
transferDates_EndParsesStart(r) ==
    LET start == ParseDate(r.StartDate)
        end == ParseDate(r.StartDate)
    IN IF r.StartDate # <<>> /\ ~ start.err.isNil
       THEN [err |-> start.err, StartDate |-> NilPtr(ZeroTime), EndDate |-> ZeroTime]
       ELSE IF r.EndDate # <<>> /\ ~ end.err.isNil
       THEN [err |-> end.err, StartDate |-> NilPtr(ZeroTime), EndDate |-> ZeroTime]
       ELSE [err |-> NoError,
             StartDate |-> IF r.StartDate # <<>> THEN Ptr(start.t) ELSE NilPtr(ZeroTime),
             EndDate |-> IF r.EndDate # <<>> THEN end.t ELSE ZeroTime]

\* the two date blocks: [err, StartDate, EndDate]
transferDates(r) ==
    LET start == ParseDate(r.StartDate)
        end == ParseDate(r.EndDate)
    IN IF r.StartDate # <<>> /\ ~ start.err.isNil
       THEN [err |-> start.err, StartDate |-> NilPtr(ZeroTime), EndDate |-> ZeroTime]
       ELSE IF r.EndDate # <<>> /\ ~ end.err.isNil
       THEN [err |-> end.err, StartDate |-> NilPtr(ZeroTime), EndDate |-> ZeroTime]
       ELSE [err |-> NoError,
             StartDate |-> IF r.StartDate # <<>> THEN Ptr(start.t) ELSE NilPtr(ZeroTime),
             EndDate |-> IF r.EndDate # <<>> THEN end.t ELSE ZeroTime]

CreateTransferSchedule_MarshalJSON(r) ==
    LET d == transferDates(r)
        p == [Every |-> r.Every, Period |-> r.Period,
              StartDate |-> d.StartDate, EndDate |-> d.EndDate,
              On |-> transferSwitch(r),
              Transfer |-> [Recipient |-> r.Recipient, Amount |-> r.Amount,
                            PercentageOfBalance |-> r.PercentageOfBalance]]
    IN IF ~ d.err.isNil
       THEN Returned(TRUE, <<>>, d.err)
       ELSE IF floatUnsupported(p.Transfer.PercentageOfBalance)
       THEN Returned(TRUE, <<>>,
                     UnsupportedValueError(p.Transfer.PercentageOfBalance.text))
       ELSE Returned(FALSE, transferParamJSON(p), NoError)

(***************************************************************************)
(* The request values a caller builds.                                     *)
(***************************************************************************)
Everys == {0, 3}

Periods == {"", "day", "week", "month"}

StartDates ==
    { <<>>,
      <<"2", "0", "1", "7", "-", "0", "5", "-", "1", "5">>,
      <<"2", "0", "1", "6", "-", "0", "2", "-", "2", "9">>,
      <<"2", "0", "1", "7", "-", "0", "2", "-", "2", "9">>,
      <<"n", "o", "t", "-", "a", "-", "d", "a", "t", "e">> }

EndDates ==
    { <<>>,
      <<"2", "0", "1", "8", "-", "0", "5", "-", "1", "5">>,
      <<"n", "o", "t", "-", "a", "-", "d", "a", "t", "e">> }

WeekdayNames == <<"monday", "saturday", "sunday", "friday">>

DayNumbers == <<1, 15, 28, 31>>

WeekdayLists == {NilSlice} \cup {Slice(SubSeq(WeekdayNames, 1, n)) : n \in 0..MaxLen}

DayLists == {NilSlice} \cup {Slice(SubSeq(DayNumbers, 1, n)) : n \in 0..MaxLen}

WeekdaysOfMonth == {"", "last_thursday"}

Amounts == {0, 100000}

Percentages ==
    {Float("zero", "0"), Float("finite", "50.55"), Float("nan", "NaN"), Float("inf", "+Inf")}

Cadences ==
    [Every : Everys, Period : Periods, StartDate : StartDates, EndDate : EndDates,
     Weekdays : WeekdayLists, DaysOfMonth : DayLists, WeekdayOfMonth : WeekdaysOfMonth]

ChargeFields ==
    [Customer : {"", "customer_id"}, Amount : Amounts, Currency : {"", "thb"},
     Card : {"", "card_id"}, Description : {"", "monthly"}]

TransferFields ==
    [Recipient : {"", "recipient_id"}, Amount : Amounts, PercentageOfBalance : Percentages]

\* a CreateChargeSchedule value
CreateChargeSchedule(c, a) ==
    [kind |-> "charge", Every |-> c.Every, Period |-> c.Period,
     StartDate |-> c.StartDate, EndDate |-> c.EndDate, Weekdays |-> c.Weekdays,
     DaysOfMonth |-> c.DaysOfMonth, WeekdayOfMonth |-> c.WeekdayOfMonth,
     Customer |-> a.Customer, Amount |-> a.Amount, Currency |-> a.Currency,
     Card |-> a.Card, Description |-> a.Description]

\* a CreateTransferSchedule value
CreateTransferSchedule(c, a) ==
    [kind |-> "transfer", Every |-> c.Every, Period |-> c.Period,
     StartDate |-> c.StartDate, EndDate |-> c.EndDate, Weekdays |-> c.Weekdays,
     DaysOfMonth |-> c.DaysOfMonth, WeekdayOfMonth |-> c.WeekdayOfMonth,
     Recipient |-> a.Recipient, Amount |-> a.Amount,
     PercentageOfBalance |-> a.PercentageOfBalance]

(***************************************************************************)
(* The state machine: a caller builds one request and encodes it, any      *)
(* number of times.                                                        *)
(***************************************************************************)
Init ==
    /\ \E c \in Cadences :
         \/ \E a \in ChargeFields : req = CreateChargeSchedule(c, a)
         \/ \E a \in TransferFields : req = CreateTransferSchedule(c, a)
    /\ res = NotCalled

MarshalCharge ==
    /\ req.kind = "charge"
    /\ res' = CreateChargeSchedule_MarshalJSON(req)
    /\ UNCHANGED req

MarshalTransfer ==
    /\ req.kind = "transfer"
    /\ res' = CreateTransferSchedule_MarshalJSON(req)
    /\ UNCHANGED req

Next == MarshalCharge \/ MarshalTransfer

Spec == Init /\ [][Next]_vars

(***************************************************************************)
(* Reading an encoded object.                                              *)
(***************************************************************************)
Keys(doc) == [i \in 1..Len(doc) |-> doc[i].key]

Has(doc, k) == \E i \in 1..Len(doc) : doc[i].key = k

Get(doc, k) == doc[CHOOSE i \in 1..Len(doc) : doc[i].key = k].val

\* MarshalJSON returned bytes and no error
Encoded == res.called /\ res.err.isNil

\* MarshalJSON returned an error
Failed == res.called /\ ~ res.err.isNil

\* the encoder of r's request type
Encode(r) ==
    IF r.kind = "charge" THEN CreateChargeSchedule_MarshalJSON(r)
    ELSE CreateTransferSchedule_MarshalJSON(r)

\* a "YYYY-MM-DD" string naming a day of the calendar, stated without the parser
MonthLengths == <<31, 28, 31, 30, 31, 30, 31, 31, 30, 31, 30, 31>>

IsCalendarDate(s) ==
    /\ Len(s) = 10
    /\ s[5] = "-" /\ s[8] = "-"
    /\ \A i \in {1, 2, 3, 4, 6, 7, 9, 10} : s[i] \in {DigitChars[k] : k \in 1..10}
    /\ LET y == DigitVal(s[1]) * 1000 + DigitVal(s[2]) * 100
                + DigitVal(s[3]) * 10 + DigitVal(s[4])
           m == DigitVal(s[6]) * 10 + DigitVal(s[7])
           d == DigitVal(s[9]) * 10 + DigitVal(s[10])
       IN /\ m \in 1..12
          /\ d >= 1
          /\ \/ d <= MonthLengths[m]
             \/ m = 2 /\ d = 29 /\ (y % 400 = 0 \/ (y % 4 = 0 /\ y % 100 # 0))

BadDate(s) == s # <<>> /\ ~ IsCalendarDate(s)

Date_2017_05_15 == <<"2", "0", "1", "7", "-", "0", "5", "-", "1", "5">>

Date_2018_05_15 == <<"2", "0", "1", "8", "-", "0", "5", "-", "1", "5">>

Date_0001_01_01 == <<"0", "0", "0", "1", "-", "0", "1", "-", "0", "1">>

NotADate == <<"n", "o", "t", "-", "a", "-", "d", "a", "t", "e">>

(***************************************************************************)
(* C1: a month request with days-of-month (at least one element) and       *)
(* weekday-of-month both set encodes `on` with days_of_month equal to the  *)
(* given list and without weekday_of_month, whatever Weekdays holds.       *)
(***************************************************************************)
C1_DaysOfMonthWins ==
    (/\ Encoded
     /\ req.Period = "month"
     /\ Len(req.DaysOfMonth.elems) >= 1
     /\ req.WeekdayOfMonth # "")
    => /\ Has(res.doc, "on")
       /\ Keys(Get(res.doc, "on")) = << "days_of_month" >>
       /\ Get(Get(res.doc, "on"), "days_of_month") = req.DaysOfMonth.elems

C1_Witness ==
    /\ Encoded
    /\ req.Period = "month"
    /\ req.DaysOfMonth.elems = << 1, 15 >>
    /\ req.WeekdayOfMonth = "last_thursday"
    /\ Len(req.Weekdays.elems) = 2
    /\ IsCalendarDate(req.StartDate) /\ IsCalendarDate(req.EndDate)
    /\ Get(res.doc, "on") = << Member("days_of_month", << 1, 15 >>) >>

(***************************************************************************)
(* C2: a month request whose days-of-month holds no element (nil or empty) *)
(* and whose weekday-of-month is non-empty encodes `on` with               *)
(* weekday_of_month equal to the given string.                             *)
(***************************************************************************)
C2_WeekdayOfMonthWhenNoDays ==
    (/\ Encoded
     /\ req.Period = "month"
     /\ Len(req.DaysOfMonth.elems) = 0
     /\ req.WeekdayOfMonth # "")
    => /\ Has(res.doc, "on")
       /\ Has(Get(res.doc, "on"), "weekday_of_month")
       /\ Get(Get(res.doc, "on"), "weekday_of_month") = req.WeekdayOfMonth

(***************************************************************************)
(* C3 as claimed: a week request always encodes `on` carrying the key      *)
(* weekdays set to the given list, also when the list is empty or absent,  *)
(* and never days_of_month or weekday_of_month.                            *)
(***************************************************************************)
C3_WeekdaysKeyAlways ==
    (Encoded /\ req.Period = "week")
    => /\ Has(res.doc, "on")
       /\ Keys(Get(res.doc, "on")) = << "weekdays" >>
       /\ Get(Get(res.doc, "on"), "weekdays") = req.Weekdays.elems

(***************************************************************************)
(* C3 amended: a week request always encodes an `on` object; `on` carries  *)
(* the key weekdays, set to the given list, exactly when the list has an   *)
(* element, and is the empty object when the list is empty or absent;      *)
(* days_of_month and weekday_of_month never appear in it.                  *)
(***************************************************************************)
C3_WeekOnObject ==
    (Encoded /\ req.Period = "week")
    => /\ Has(res.doc, "on")
       /\ IF Len(req.Weekdays.elems) > 0
          THEN Get(res.doc, "on") = << Member("weekdays", req.Weekdays.elems) >>
          ELSE Get(res.doc, "on") = <<>>

C3_Witness ==
    /\ Encoded
    /\ req.Period = "week"
    /\ ~ req.Weekdays.isNil /\ req.Weekdays.elems = <<>>
    /\ Len(req.DaysOfMonth.elems) > 0
    /\ req.WeekdayOfMonth # ""
    /\ Has(res.doc, "on") /\ Get(res.doc, "on") = <<>>

Unselected(r) ==
    [r EXCEPT !.Weekdays = NilSlice, !.DaysOfMonth = NilSlice, !.WeekdayOfMonth = ""]

(***************************************************************************)
(* C4: a day request never encodes an `on` key, whatever Weekdays,         *)
(* DaysOfMonth and WeekdayOfMonth hold: the result is that of the same     *)
(* request with the three selector fields unset.                           *)
(***************************************************************************)
C4_DayHasNoOn ==
    (res.called /\ req.Period = "day")
    => /\ res.err.isNil => ~ Has(res.doc, "on")
       /\ res = Encode(Unselected(req))

C4_Witness ==
    /\ Encoded
    /\ req.Period = "day"
    /\ Len(req.Weekdays.elems) > 0
    /\ Len(req.DaysOfMonth.elems) > 0
    /\ req.WeekdayOfMonth # ""
    /\ ~ Has(res.doc, "on")

(***************************************************************************)
(* C5 as claimed: encoding fails exactly when a non-empty StartDate or a   *)
(* non-empty EndDate is no valid "YYYY-MM-DD" calendar date, and a failure *)
(* returns an error and no bytes.                                          *)
(***************************************************************************)
C5_OnlyDatesFail ==
    res.called
    => /\ ~ res.err.isNil <=> (BadDate(req.StartDate) \/ BadDate(req.EndDate))
       /\ ~ res.err.isNil => (res.bytesNil /\ res.doc = <<>>)

(***************************************************************************)
(* C5 amended: encoding fails exactly when a non-empty StartDate or a      *)
(* non-empty EndDate is no valid "YYYY-MM-DD" calendar date or, for the    *)
(* transfer encoder, when the dates pass and PercentageOfBalance is NaN or *)
(* infinite (a value encoding/json refuses); a failure returns an error    *)
(* and no bytes, never a partly built document, also when StartDate is     *)
(* valid and only EndDate is not; a success returns bytes and no error.    *)
(***************************************************************************)
C5_FailureModes ==
    res.called
    => /\ ~ res.err.isNil <=>
            \/ BadDate(req.StartDate)
            \/ BadDate(req.EndDate)
            \/ (req.kind = "transfer" /\ req.PercentageOfBalance.class \in {"nan", "inf"})
       /\ (BadDate(req.StartDate) \/ BadDate(req.EndDate))
            <=> res.err.type = "time.ParseError"
       /\ ~ res.err.isNil => (res.bytesNil /\ res.doc = <<>>)
       /\ res.err.isNil => (~ res.bytesNil /\ Len(res.doc) > 0)

C5_Witness ==
    /\ Failed
    /\ req.StartDate = Date_2017_05_15
    /\ req.EndDate = NotADate
    /\ res.err.type = "time.ParseError"
    /\ res.bytesNil

\* req with its bad StartDate moved to EndDate, and StartDate d
MovedToEndDate(d) == [req EXCEPT !.StartDate = d, !.EndDate = req.StartDate]

(***************************************************************************)
(* C6 as claimed: the date error tells which field failed: one unparsable  *)
(* string given as StartDate and the same string given as EndDate yield    *)
(* errors that differ.                                                     *)
(***************************************************************************)
C6_ErrorNamesField ==
    (Failed /\ BadDate(req.StartDate))
    => /\ res.err.Value = req.StartDate
       /\ \A d \in {<<>>, Date_2017_05_15} : Encode(MovedToEndDate(d)).err # res.err

(***************************************************************************)
(* C6 amended: the date error carries the invalid input string (that of    *)
(* StartDate when StartDate is bad, else that of EndDate) and the layout   *)
(* element that did not parse, but not the request field: one unparsable   *)
(* string given as StartDate and the same string given as EndDate yield    *)
(* equal errors.                                                           *)
(***************************************************************************)
C6_ErrorCarriesInputOnly ==
    /\ (Failed /\ BadDate(req.StartDate))
       => /\ res.err.Value = req.StartDate
          /\ \A d \in {<<>>, Date_2017_05_15} : Encode(MovedToEndDate(d)).err = res.err
    /\ (Failed /\ ~ BadDate(req.StartDate) /\ BadDate(req.EndDate))
       => /\ res.err.Value = req.EndDate
          /\ res.err = Encode([req EXCEPT !.StartDate = req.EndDate]).err

C6_Witness ==
    /\ Failed
    /\ req.StartDate = NotADate
    /\ req.EndDate = Date_2018_05_15
    /\ res.err.Value = NotADate
    /\ Encode(MovedToEndDate(Date_2017_05_15)).err = res.err

(***************************************************************************)
(* C7 as claimed: the action object holds exactly the action fields that   *)
(* are not zero, each with its given value.                                *)
(***************************************************************************)
C7_ZeroFieldsOmitted ==
    Encoded
    => IF req.kind = "charge"
       THEN LET a == Get(res.doc, "charge")
            IN /\ Has(a, "customer") <=> req.Customer # ""
               /\ Has(a, "amount") <=> req.Amount # 0
               /\ Has(a, "currency") <=> req.Currency # ""
               /\ Has(a, "card") <=> req.Card # ""
               /\ Has(a, "description") <=> req.Description # ""
       ELSE LET a == Get(res.doc, "transfer")
            IN /\ Has(a, "recipient") <=> req.Recipient # ""
               /\ Has(a, "amount") <=> req.Amount # 0
               /\ Has(a, "percentage_of_balance") <=> req.PercentageOfBalance.class # "zero"

(***************************************************************************)
(* C7 amended: the charge object always holds customer and amount, also    *)
(* when they are "" and 0, and holds currency, card and description        *)
(* exactly when they are non-empty; the transfer object always holds       *)
(* recipient, also when it is "", and holds amount and                     *)
(* percentage_of_balance exactly when they are not zero; every key present *)
(* carries the given value, in the order of the struct's fields.           *)
(***************************************************************************)
C7_ActionObject ==
    Encoded
    => IF req.kind = "charge"
       THEN LET a == Get(res.doc, "charge")
            IN /\ Keys(a) = SelectSeq(<< "customer", "amount", "currency", "card",
                                         "description" >>, LAMBDA k : Has(a, k))
               /\ Has(a, "customer") /\ Get(a, "customer") = req.Customer
               /\ Has(a, "amount") /\ Get(a, "amount") = req.Amount
               /\ Has(a, "currency") <=> req.Currency # ""
               /\ Has(a, "card") <=> req.Card # ""
               /\ Has(a, "description") <=> req.Description # ""
               /\ Has(a, "currency") => Get(a, "currency") = req.Currency
               /\ Has(a, "card") => Get(a, "card") = req.Card
               /\ Has(a, "description") => Get(a, "description") = req.Description
       ELSE LET a == Get(res.doc, "transfer")
            IN /\ Keys(a) = SelectSeq(<< "recipient", "amount",
                                         "percentage_of_balance" >>, LAMBDA k : Has(a, k))
               /\ Has(a, "recipient") /\ Get(a, "recipient") = req.Recipient
               /\ Has(a, "amount") <=> req.Amount # 0
               /\ Has(a, "percentage_of_balance") <=> req.PercentageOfBalance.class # "zero"
               /\ Has(a, "amount") => Get(a, "amount") = req.Amount
               /\ Has(a, "percentage_of_balance")
                    => Get(a, "percentage_of_balance") = req.PercentageOfBalance.text

C7_Witness ==
    /\ Encoded
    /\ req.kind = "transfer"
    /\ req.Recipient = "recipient_id"
    /\ req.Amount = 0
    /\ req.PercentageOfBalance = Float("finite", "50.55")
    /\ Get(res.doc, "transfer") = << Member("recipient", "recipient_id"),
                                     Member("percentage_of_balance", "50.55") >>

(***************************************************************************)
(* C8: in every successful encoding start_date is present exactly when     *)
(* StartDate is non-empty and then is that string verbatim; end_date is    *)
(* always present, the given EndDate verbatim when that is non-empty and   *)
(* the zero date "0001-01-01" when it is empty.                            *)
(***************************************************************************)
C8_Dates ==
    Encoded
    => /\ Has(res.doc, "start_date") <=> req.StartDate # <<>>
       /\ Has(res.doc, "start_date") => Get(res.doc, "start_date") = req.StartDate
       /\ Has(res.doc, "end_date")
       /\ Get(res.doc, "end_date")
            = (IF req.EndDate # <<>> THEN req.EndDate ELSE Date_0001_01_01)

C8_Witness ==
    /\ Encoded
    /\ req.StartDate = <<"2", "0", "1", "6", "-", "0", "2", "-", "2", "9">>
    /\ req.EndDate = <<>>
    /\ Get(res.doc, "start_date") = req.StartDate
    /\ Get(res.doc, "end_date") = Date_0001_01_01

ActionKey == IF req.kind = "charge" THEN "charge" ELSE "transfer"

KeyOrder == << "every", "period", "start_date", "end_date", "on", ActionKey >>

\* the keys of a successful encoding, in order
C9_KeysInOrder ==
    Encoded
    => /\ Keys(res.doc) = SelectSeq(KeyOrder, LAMBDA k : Has(res.doc, k))
       /\ \A k \in {"every", "period", "end_date", ActionKey} : Has(res.doc, k)
       /\ Get(res.doc, "every") = req.Every
       /\ Get(res.doc, "period") = req.Period

(***************************************************************************)
(* C9: every successful encoding lists its top-level keys in the fixed     *)
(* order every, period, start_date (if present), end_date, on (if          *)
(* present), then charge or transfer; every, period, end_date and the      *)
(* action key are always there and no key occurs twice; encoding the same  *)
(* request again returns the same result and leaves the request unchanged. *)
(***************************************************************************)
C9_Deterministic ==
    /\ [] C9_KeysInOrder
    /\ [][/\ req' = req
          /\ res.called => res' = res]_vars

C9_Witness ==
    /\ Encoded
    /\ req.kind = "charge"
    /\ req.Period = "week"
    /\ res.doc = << Member("every", 3), Member("period", "week"),
                    Member("start_date", Date_2017_05_15),
                    Member("end_date", Date_2018_05_15),
                    Member("on", << Member("weekdays", << "monday", "saturday" >>) >>),
                    Member("charge", << Member("customer", "customer_id"),
                                        Member("amount", 100000) >>) >>

CadenceOf(r) ==
    [Every |-> r.Every, Period |-> r.Period, StartDate |-> r.StartDate,
     EndDate |-> r.EndDate, Weekdays |-> r.Weekdays, DaysOfMonth |-> r.DaysOfMonth,
     WeekdayOfMonth |-> r.WeekdayOfMonth]

\* the requests of the other type with req's cadence
Counterparts ==
    IF req.kind = "charge"
    THEN {CreateTransferSchedule(CadenceOf(req), a) : a \in TransferFields}
    ELSE {CreateChargeSchedule(CadenceOf(req), a) : a \in ChargeFields}

CadencePart(doc) ==
    SelectSeq(doc, LAMBDA m : m.key \in {"every", "period", "start_date", "end_date", "on"})

\* two successful encodings, one of each type, agree but for the action key
SameCadence(d1, k1, d2, k2) ==
    /\ CadencePart(d1) = CadencePart(d2)
    /\ Len(d1) = Len(CadencePart(d1)) + 1 /\ d1[Len(d1)].key = k1
    /\ Len(d2) = Len(CadencePart(d2)) + 1 /\ d2[Len(d2)].key = k2
    /\ {k1, k2} = {"charge", "transfer"}

(***************************************************************************)
(* C10 as claimed: a charge request and a transfer request with equal      *)
(* Every, Period, StartDate, EndDate, Weekdays, DaysOfMonth and            *)
(* WeekdayOfMonth either both fail with the same date error, or both       *)
(* succeed with identical every, period, start_date, end_date and `on`     *)
(* entries and differ only in the last key, charge for the one and         *)
(* transfer for the other.                                                 *)
(***************************************************************************)
C10_EncodersAgree ==
    res.called
    => \A r2 \in Counterparts :
         LET o == Encode(r2)
         IN \/ /\ ~ res.err.isNil /\ res.err.type = "time.ParseError"
               /\ o.err = res.err
            \/ /\ res.err.isNil /\ o.err.isNil
               /\ SameCadence(res.doc, req.kind, o.doc, r2.kind)

(***************************************************************************)
(* C10 amended: a charge request and a transfer request with equal         *)
(* cadence fields either both fail with the same date error, or neither    *)
(* fails on a date; when both succeed their outputs have identical every,  *)
(* period, start_date, end_date and `on` entries and differ only in the    *)
(* last key, charge for the one and transfer for the other, never both.    *)
(* With dates that pass, the charge encoder always succeeds and the        *)
(* transfer encoder fails alone exactly when its PercentageOfBalance is    *)
(* NaN or infinite.                                                        *)
(***************************************************************************)
C10_EncodersAgreeOnDates ==
    res.called
    => \A r2 \in Counterparts :
         LET o == Encode(r2)
             c == IF req.kind = "charge" THEN res ELSE o
             t == IF req.kind = "charge" THEN o ELSE res
             tr == IF req.kind = "charge" THEN r2 ELSE req
         IN /\ (c.err.type = "time.ParseError" \/ t.err.type = "time.ParseError")
                 => (c.err = t.err /\ c.bytesNil /\ t.bytesNil)
            /\ (c.err.isNil /\ t.err.isNil)
                 => SameCadence(c.doc, "charge", t.doc, "transfer")
            /\ c.err.isNil => (~ t.err.isNil <=>
                                 tr.PercentageOfBalance.class \in {"nan", "inf"})
            /\ ~ c.err.isNil => ~ t.err.isNil

C10_Witness ==
    /\ Encoded
    /\ req.kind = "transfer"
    /\ req.Period = "month"
    /\ req.DaysOfMonth.elems = << 1, 15 >>
    /\ req.StartDate = Date_2017_05_15
    /\ \E r2 \in Counterparts :
         /\ Encode(r2).err.isNil
         /\ SameCadence(Encode(r2).doc, "charge", res.doc, "transfer")
         /\ Has(Encode(r2).doc, "on")

====
